---- MODULE Spec2Model ----
(***************************************************************************)
(* Press Release Distribution Agent (cosimoiaia/agent-m).                  *)
(*                                                                         *)
(* The workflow of src/app.py: the AgentState record held in the Streamlit *)
(* session, the four stage functions (press_release_writer,                *)
(* recipient_search, email_distributor, social_media_poster), the compiled *)
(* LangGraph workflow (app.invoke) and the handlers of main().  The        *)
(* collaborators (Groq generation, search_recipients, CloudStorage, SMTP,  *)
(* the social platforms) are the environment: each call draws its outcome  *)
(* from a small set.                                                       *)
(*                                                                         *)
(* A stage function mutates the state dict it is given in place, so when   *)
(* it raises, the assignments made before the raise stay in the caller's   *)
(* dict.  app.invoke works on LangGraph's own copy of the state: when a    *)
(* node raises, the session state keeps what it held at the call.          *)
(***************************************************************************)
EXTENDS Integers, Sequences, FiniteSets, TLC

VARIABLES
    state,            \* st.session_state.state, an AgentState
    op,               \* the operation that ran last
    raised,           \* whether it ended by raising
    fx,               \* the calls it made, in order
    approvedAtEntry,  \* state.approved when it was entered
    ret               \* what it returned, when that is not the state

vars == <<state, op, raised, fx, approvedAtEntry, ret>>

----------------------------------------------------------------------------
(* Bounds of the model. *)

MaxRecipients == 2
MaxTopics == 1

(* Values the environment and the operator choose from. *)

TopicNames == {"t1", "t2"}
Texts == {"", "pr1", "pr2"}
Emails == {"", "a@x", "b@x"}
TopicWords == {"x", "y"}
Platforms == {"twitter", "linkedin", "facebook"}
PlatformOrder == <<"twitter", "linkedin", "facebook">>

Recipients == {[email |-> e] : e \in Emails}
RecipientLists == UNION {[1..n -> Recipients] : n \in 0..MaxRecipients}
TopicLists == UNION {[1..n -> TopicWords] : n \in 0..MaxTopics}

Steps == <<"initial", "press_release", "topics", "recipients", "email", "social_media">>

StepIndex(s) == CHOOSE i \in 1..Len(Steps) : Steps[i] = s

----------------------------------------------------------------------------
(* Python dicts as functions. *)

EmptyDict == [k \in {} |-> FALSE]

DictSet(d, k, v) == [x \in (DOMAIN d) \cup {k} |-> IF x = k THEN v ELSE d[x]]

(* A call in the log: what was called, on what, and whether it completed   *)
(* (ok) or raised.                                                         *)
Call(c, a) == [call |-> c, arg |-> a, ok |-> TRUE]
Attempt(c, a, completed) == [call |-> c, arg |-> a, ok |-> completed]

NoValue == [raised |-> FALSE, status |-> EmptyDict]

Calls(log, c) == {i \in 1..Len(log) : log[i].call = c}

----------------------------------------------------------------------------
(* The state main() constructs, and resets to. *)

InitialState ==
    [topic |-> "", press_release |-> "", press_release_url |-> "",
     recipients |-> <<>>, email_status |-> EmptyDict, email_url |-> "",
     social_media_status |-> EmptyDict, current_step |-> "initial",
     approved |-> FALSE, topics |-> <<>>]

----------------------------------------------------------------------------
(* CloudStorage: S3 first, the local directory as fallback, "" when the    *)
(* local write fails too.  e.cloud: use_cloud holds and put_object         *)
(* succeeds; e.local: the local write succeeds.                            *)

_store_local(content_type, e) ==
    IF e.local THEN "local_storage/" \o content_type ELSE ""

store_press_release(e) ==
    IF e.cloud THEN "s3://bucket/press_releases"
    ELSE _store_local("press_releases", e)

store_email(e) ==
    IF e.cloud THEN "s3://bucket/emails"
    ELSE _store_local("emails", e)

(* A storage call as a stage sees it: the locator, or an exception (the    *)
(* tests inject one; CloudStorage itself catches its own).                 *)
StorageEnvs ==
    {[raises |-> FALSE, cloud |-> TRUE, local |-> TRUE],
     [raises |-> FALSE, cloud |-> FALSE, local |-> TRUE],
     [raises |-> FALSE, cloud |-> FALSE, local |-> FALSE],
     [raises |-> TRUE, cloud |-> FALSE, local |-> FALSE]}

----------------------------------------------------------------------------
(* utils.send_email.  e.creds: SMTP_USERNAME and SMTP_PASSWORD are set;    *)
(* e.connect: SMTP(), starttls and login succeed; e.ok: the positions of   *)
(* the recipients whose send_message succeeds; e.close: leaving the `with` *)
(* block (QUIT) succeeds.  The result: raised (ValueError), the status     *)
(* dict, and the calls made.                                               *)

NoEntries(recipients) == EmptyDict
AllFailed(recipients) ==
    [k \in {recipients[i].email : i \in 1..Len(recipients)} |-> FALSE]

RECURSIVE SendLoop(_, _, _, _)
SendLoop(recipients, e, i, status) ==
    IF i > Len(recipients) THEN status
    ELSE SendLoop(recipients, e, i + 1,
                  DictSet(status, recipients[i].email, i \in e.ok))

SendCalls(recipients, e) ==
    [i \in 1..Len(recipients) |->
        Attempt("send_message", recipients[i].email, i \in e.ok)]

send_email(recipients, e) ==
    IF ~e.creds
    THEN [raised |-> TRUE, status |-> EmptyDict, fx |-> <<>>]
    ELSE IF ~e.connect
    THEN [raised |-> FALSE, status |-> AllFailed(recipients),
          fx |-> <<Attempt("SMTP", "", FALSE)>>]
    ELSE [raised |-> FALSE,
          status |-> IF e.close
                     THEN SendLoop(recipients, e, 1, EmptyDict)
                     ELSE AllFailed(recipients),
          fx |-> <<Call("SMTP", "")>> \o SendCalls(recipients, e)
                 \o <<Attempt("quit", "", e.close)>>]

(* The outcomes send_email can meet on a list of n recipients. *)
SendEnvs(n) ==
    {[creds |-> FALSE, connect |-> FALSE, ok |-> {}, close |-> FALSE],
     [creds |-> TRUE, connect |-> FALSE, ok |-> {}, close |-> FALSE]}
    \cup {[creds |-> TRUE, connect |-> TRUE, ok |-> S, close |-> c] :
            S \in SUBSET (1..n), c \in BOOLEAN}

----------------------------------------------------------------------------
(* utils.post_to_social_media.  p[k] is "unconfigured" (credentials        *)
(* absent: no call), "ok" or "fail" (the platform's call raises).  Twitter *)
(* posts one tweet per 280 characters, so none for an empty text.  When no *)
(* platform succeeds the function raises inside its own try and returns    *)
(* the all-false dict from the handler.                                    *)

PlatformPosts(press_release, p, k) ==
    IF p[k] = "unconfigured" \/ (k = "twitter" /\ press_release = "")
    THEN <<>>
    ELSE <<Attempt("post", k, p[k] = "ok")>>

WhenConfigured(press_release, p, k) == p[k] # "unconfigured"

PlatformStatus(press_release, p, k) ==
    IF k = "twitter" /\ press_release = ""
    THEN p[k] # "unconfigured"
    ELSE p[k] = "ok"

post_to_social_media(press_release, p) ==
    LET status == [k \in Platforms |-> PlatformStatus(press_release, p, k)]
    IN  [status |-> IF \E k \in Platforms : status[k]
                    THEN status
                    ELSE [k \in Platforms |-> FALSE],
         fx |-> PlatformPosts(press_release, p, PlatformOrder[1])
                \o PlatformPosts(press_release, p, PlatformOrder[2])
                \o PlatformPosts(press_release, p, PlatformOrder[3])]

PostEnvs == [Platforms -> {"unconfigured", "ok", "fail"}]

----------------------------------------------------------------------------
(* utils.search_journalist_email.  q.found[n]: the email the n-th          *)
(* perform_web_search of the call finds ("" when none matches; the helper  *)
(* catches its own exceptions).  q.gen[k]: what the k-th                   *)
(* generate_search_query does: "query" (a new query), "empty" (an empty    *)
(* completion) or "error" (the exception is caught and "" returned).  The  *)
(* outcomes run one past the budget, so that an overrun would show.        *)

max_attempts == 5
initial_queries ==
    <<"email contact", "contatti", "staff directory", "redazione contatti">>
MaxSearches == Len(initial_queries) + max_attempts

GenerationOutcomes == {"query", "empty", "error"}

perform_web_search(q, n) == q.found[n]
generate_search_query(q, k) == IF q.gen[k] = "query" THEN "refined" ELSE ""

(* The n-th search of the call, and what it found. *)
Searched(n, email) ==
    Call("perform_web_search", [query |-> n, found |-> email])

(* `if email:` after a search. *)
NeverFound(email) == FALSE
Found(email) == email # ""

(* `for attempt in range(max_attempts)`. *)
OneMoreAttempt(attempt) == attempt > max_attempts + 1
BudgetSpent(attempt) == attempt > max_attempts

(* `previous_queries.append(query)` after a search that found nothing. *)
Forget(previous_queries, query) == previous_queries
Remember(previous_queries, query) == Append(previous_queries, query)

(* A call of generate_search_query, and the previous_queries it was given. *)
RECURSIVE RefinedQueries(_, _, _, _)
RefinedQueries(q, attempt, previous_queries, log) ==
    IF BudgetSpent(attempt) THEN [email |-> "", fx |-> log]
    ELSE LET new_query == generate_search_query(q, attempt)
             log1 == Append(log,
                            [call |-> "generate_search_query",
                             arg |-> attempt, ok |-> q.gen[attempt] # "error",
                             previous |-> previous_queries])
             n == Len(initial_queries) + attempt
             email == perform_web_search(q, n)
             log2 == Append(log1, Searched(n, email))
         IN  IF new_query = "" THEN [email |-> "", fx |-> log1]
             ELSE IF Found(email) THEN [email |-> email, fx |-> log2]
             ELSE RefinedQueries(q, attempt + 1,
                                 Remember(previous_queries, new_query), log2)

RECURSIVE InitialQueries(_, _, _, _)
InitialQueries(q, n, previous_queries, log) ==
    IF n > Len(initial_queries)
    THEN RefinedQueries(q, 1, previous_queries, log)
    ELSE LET email == perform_web_search(q, n)
             log1 == Append(log, Searched(n, email))
         IN  IF Found(email) THEN [email |-> email, fx |-> log1]
             ELSE InitialQueries(q, n + 1,
                                 Remember(previous_queries, initial_queries[n]),
                                 log1)

search_journalist_email(q) == InitialQueries(q, 1, <<>>, <<>>)

(* The outcomes of one call: of the initial searches, and of the           *)
(* refinement attempts (which matter only when no initial search matches). *)
InitialFound == [1..Len(initial_queries) -> Emails]
RefinedFound ==
    [(Len(initial_queries) + 1)..(MaxSearches + 1) -> {"", "b@x"}]
Generated == [1..(max_attempts + 1) -> GenerationOutcomes]
NothingFound == [n \in 1..(MaxSearches + 1) |-> ""]
AlwaysGenerates == [k \in 1..(max_attempts + 1) |-> "query"]
QueryEnv(first, rest, gen) ==
    [found |-> [n \in 1..(MaxSearches + 1) |->
                   IF n <= Len(initial_queries) THEN first[n] ELSE rest[n]],
     gen |-> gen]

----------------------------------------------------------------------------
(* utils.search_recipients: the news API, then a web search, then two      *)
(* directories.  The environment v gives v.key (NEWS_API_KEY is set) and,  *)
(* for each request, how it answers (resp: "raise", "status" for a status  *)
(* other than 200, "unparseable" for a body json() rejects, "ok") and what *)
(* an ok answer lists.  An email that is not in the answer is looked up    *)
(* with search_journalist_email.                                           *)

MaxFound == 2

(* Two lookups: one that finds an email at the second query, one that     *)
(* never finds any.                                                        *)
FoundLookup ==
    QueryEnv([n \in 1..Len(initial_queries) |->
                 IF n = 2 THEN "a@x" ELSE ""],
             NothingFound, AlwaysGenerates)
NoLookup ==
    QueryEnv([n \in 1..Len(initial_queries) |-> ""],
             NothingFound, AlwaysGenerates)
Lookups == {FoundLookup, NoLookup}

ListsOf(S) == UNION {[1..n -> S] : n \in 0..MaxFound}

(* An article: whether it names an author, and the lookup of the author. *)
Articles ==
    {[author |-> FALSE, lookup |-> NoLookup]}
    \cup {[author |-> TRUE, lookup |-> q] : q \in Lookups}

(* A search result: whether its title marks a contact page with a snippet, *)
(* the email in the snippet ("" none), and the lookup made when none.      *)
WebResults ==
    {[contact |-> FALSE, email |-> "", lookup |-> NoLookup]}
    \cup {[contact |-> TRUE, email |-> e, lookup |-> NoLookup] :
            e \in Emails \ {""}}
    \cup {[contact |-> TRUE, email |-> "", lookup |-> q] : q \in Lookups}

(* A directory entry: whether it holds a name, and the lookup of the name. *)
DirectoryEntries ==
    {[named |-> FALSE, lookup |-> NoLookup]}
    \cup {[named |-> TRUE, lookup |-> q] : q \in Lookups}

Refused(kinds) == {[resp |-> k, lists |-> <<>>] : k \in kinds}
NewsAnswers ==
    Refused({"raise", "status", "unparseable"})
    \cup {[resp |-> "ok", lists |-> l] : l \in ListsOf(Articles)}
WebAnswers ==
    Refused({"raise", "status"})
    \cup {[resp |-> "ok", lists |-> l] : l \in ListsOf(WebResults)}
DirectoryAnswers ==
    Refused({"raise", "status"})
    \cup {[resp |-> "ok", lists |-> l] : l \in ListsOf(DirectoryEntries)}
NotAsked == [resp |-> "status", lists |-> <<>>]

media_directories == <<"odg.it", "fnsi.it">>

Request(target, answer) ==
    Attempt("requests.get", target, answer.resp # "raise")

Recipient(email) == [email |-> email]

(* Lines 273-306: raised, the recipients appended, the calls. *)
NewsRecipient(a) == Recipient(search_journalist_email(a.lookup).email)
NewsStrategy(v) ==
    IF ~v.key THEN [raised |-> FALSE, found |-> <<>>, fx |-> <<>>]
    ELSE LET authored == SelectSeq(v.news.lists, LAMBDA a : a.author)
         IN  [raised |-> v.news.resp \in {"raise", "unparseable"},
              found |-> [i \in 1..Len(authored) |->
                            NewsRecipient(authored[i])],
              fx |-> <<Request("newsapi.org", v.news)>>
                     \o [i \in 1..Len(authored) |->
                            Call("search_journalist_email", "news")]]

(* Lines 311-349. *)
WebRecipient(r) ==
    Recipient(IF r.email # "" THEN r.email
              ELSE search_journalist_email(r.lookup).email)
WebStrategy(v) ==
    LET contacts == SelectSeq(v.web.lists, LAMBDA r : r.contact)
        looked == SelectSeq(contacts, LAMBDA r : r.email = "")
    IN  [raised |-> v.web.resp = "raise",
         found |-> [i \in 1..Len(contacts) |-> WebRecipient(contacts[i])],
         fx |-> <<Request("google.com", v.web)>>
                \o [i \in 1..Len(looked) |->
                       Call("search_journalist_email", "web")]]

(* Lines 359-384, one directory: an exception is caught inside the loop. *)
DirectoryRecipient(d) == Recipient(search_journalist_email(d.lookup).email)
Directory(v, i) ==
    LET named == SelectSeq(v.dirs[i].lists, LAMBDA d : d.named)
    IN  [found |-> [j \in 1..Len(named) |-> DirectoryRecipient(named[j])],
         fx |-> <<Request(media_directories[i], v.dirs[i])>>
                \o [j \in 1..Len(named) |->
                       Call("search_journalist_email", "directory")]]
DirectoryStrategy(v) ==
    [raised |-> FALSE,
     found |-> Directory(v, 1).found \o Directory(v, 2).found,
     fx |-> Directory(v, 1).fx \o Directory(v, 2).fx]

Skipped == [raised |-> FALSE, found |-> <<>>, fx |-> <<>>]

(* `if not recipients:` in front of a fallback. *)
Regardless(recipients) == TRUE
NothingYet(recipients) == recipients = <<>>

(* The handler at lines 389-391: what was collected is returned. *)
Reraise(r) == r
OuterExcept(r) == [r EXCEPT !.raised = FALSE]

(* The result: raised, the list, the calls, and how many recipients each   *)
(* strategy gave.                                                          *)
search_recipients(v) ==
    LET n == NewsStrategy(v)
        w == IF ~n.raised /\ NothingYet(n.found)
             THEN WebStrategy(v) ELSE Skipped
        list2 == n.found \o w.found
        d == IF ~n.raised /\ ~w.raised /\ NothingYet(list2)
             THEN DirectoryStrategy(v) ELSE Skipped
        given == [news |-> IF n.raised THEN 0 ELSE Len(n.found),
                  web |-> IF w.raised THEN 0 ELSE Len(w.found),
                  directory |-> Len(d.found)]
        list == IF n.raised THEN <<>>
                ELSE IF w.raised THEN n.found
                ELSE list2 \o d.found
    IN  OuterExcept([raised |-> n.raised \/ w.raised,
                     list |-> list,
                     given |-> given,
                     fx |-> n.fx \o w.fx \o d.fx])

----------------------------------------------------------------------------
(* The stage functions of app.py (agent.py holds the same four).  Each     *)
(* takes the state and the outcomes of the calls it may make, and gives    *)
(* the state it leaves, whether it raised, and the calls it made.          *)

Returned(s, log) == [state |-> s, raised |-> FALSE, fx |-> log]
Raised(s, log) == [state |-> s, raised |-> TRUE, fx |-> log]

(* client.chat.completions.create: an exception, or the generated text. *)
GenOutcomes ==
    {[raises |-> TRUE, text |-> ""]}
    \cup {[raises |-> FALSE, text |-> t] : t \in Texts}

(* search_recipients: an exception (the tests inject one), or a list. *)
SearchOutcomes ==
    {[raises |-> TRUE, found |-> <<>>]}
    \cup {[raises |-> FALSE, found |-> l] : l \in RecipientLists}

(* state.get("approved", False): the gate in front of a stage's sends. *)
Unguarded(s) == TRUE
Approved(s) == s.approved

(* The last two assignments of a stage: name the step, withdraw approval. *)
FinishedKeepingApproval(s, step) == [s EXCEPT !.current_step = step]
FinishedWhereItWas(s, step) == [s EXCEPT !.approved = FALSE]
Finished(s, step) == [s EXCEPT !.current_step = step, !.approved = FALSE]

(* `not state.get("press_release")`, `not state.get("recipients")`. *)
NeverMissing(v) == FALSE
Missing(v) == Len(v) = 0

(* email_distributor's try/except around a storage call: the locator the  *)
(* call returns, "" when it raises.                                        *)
ErrorMarker(e, url) == IF e.raises THEN "error" ELSE url
BestEffort(e, url) == IF e.raises THEN "" ELSE url

(* press_release_writer's `except Exception: logger.error(...); raise`. *)
LogAndReturn(s, log) == Returned(s, log)
LogAndRaise(s, log) == Raised(s, log)

press_release_writer(s, g, u) ==
    IF g.raises
    THEN LogAndRaise(s, <<Attempt("generate", s.topic, FALSE)>>)
    ELSE LET s1 == [s EXCEPT !.press_release = g.text,
                             !.current_step = "press_release",
                             !.approved = FALSE]
             log == <<Call("generate", s.topic),
                      Attempt("store_press_release", s.topic, ~u.raises)>>
         IN  IF u.raises
             THEN LogAndRaise(s1, log)
             ELSE Returned([s1 EXCEPT !.press_release_url =
                                          store_press_release(u)], log)

recipient_search(s, r) ==
    IF r.raises
    THEN Returned([s EXCEPT !.recipients = <<>>],
                  <<Attempt("search_recipients", "it", FALSE)>>)
    ELSE IF r.found = <<>>
    THEN Returned(s, <<Call("search_recipients", "it"),
                       Call("st.error", "Nessun destinatario trovato")>>)
    ELSE Returned([s EXCEPT !.recipients = r.found,
                            !.current_step = "recipients",
                            !.approved = FALSE],
                  <<Call("search_recipients", "it")>>)

email_distributor(s, e) ==
    IF Missing(s.press_release) THEN Raised(s, <<>>)
    ELSE IF Missing(s.recipients) THEN Raised(s, <<>>)
    ELSE IF Approved(s)
    THEN LET s1 == [s EXCEPT !.press_release_url =
                        BestEffort(e.store1, store_press_release(e.store1))]
             sent == send_email(s.recipients, e.send)
             log1 == <<Attempt("store_press_release", s.topic,
                               ~e.store1.raises),
                       Attempt("send_email", "", ~sent.raised)>>
         IN  IF sent.raised
             THEN Raised(s1, log1 \o sent.fx)
             ELSE Returned(
                    Finished(
                      [s1 EXCEPT !.email_status = sent.status,
                                 !.email_url =
                                     BestEffort(e.store2,
                                                store_email(e.store2))],
                      "email"),
                    log1 \o sent.fx
                    \o <<Attempt("store_email", s.topic, ~e.store2.raises)>>)
    ELSE Returned(Finished(s, "email"), <<>>)

social_media_poster(s, p) ==
    IF Missing(s.press_release) THEN Raised(s, <<>>)
    ELSE IF Approved(s)
    THEN LET posted == post_to_social_media(s.press_release, p)
         IN  IF DOMAIN posted.status = {}
             THEN Raised(s, <<Call("post_to_social_media", "")>> \o posted.fx)
             ELSE Returned(Finished([s EXCEPT !.social_media_status =
                                                    posted.status],
                                    "social_media"),
                           <<Call("post_to_social_media", "")>> \o posted.fx)
    ELSE Returned(Finished(s, "social_media"), <<>>)

----------------------------------------------------------------------------
(* The compiled workflow.  The entry point is press_release_writer and the *)
(* edges run writer -> recipient_search -> email_distributor ->            *)
(* social_media_poster, so an invoke runs the four nodes in that order     *)
(* from the entry point, whatever current_step says.  A node that raises   *)
(* ends the run: invoke raises and returns no state.                       *)

app_invoke(s, env) ==
    LET a == press_release_writer(s, env.gen, env.store)
        b == recipient_search(a.state, env.search)
        c == email_distributor(b.state, env.email)
        d == social_media_poster(c.state, env.post)
    IN  IF a.raised THEN Raised(s, a.fx)
        ELSE IF b.raised THEN Raised(s, a.fx \o b.fx)
        ELSE IF c.raised THEN Raised(s, a.fx \o b.fx \o c.fx)
        ELSE IF d.raised THEN Raised(s, a.fx \o b.fx \o c.fx \o d.fx)
        ELSE Returned(d.state, a.fx \o b.fx \o c.fx \o d.fx)

----------------------------------------------------------------------------
(* The outcomes to draw for a stage run on s.  When the stage leaves the   *)
(* same result whether every call succeeds or every call fails, it makes   *)
(* no call whose outcome matters, and one outcome stands for all.          *)

GoodStore == [raises |-> FALSE, cloud |-> TRUE, local |-> TRUE]
BadStore == [raises |-> TRUE, cloud |-> FALSE, local |-> FALSE]

GoodEmailEnv(s) ==
    [store1 |-> GoodStore,
     send |-> [creds |-> TRUE, connect |-> TRUE,
               ok |-> 1..Len(s.recipients), close |-> TRUE],
     store2 |-> GoodStore]

BadEmailEnv ==
    [store1 |-> BadStore,
     send |-> [creds |-> FALSE, connect |-> FALSE, ok |-> {}, close |-> FALSE],
     store2 |-> BadStore]

EmailEnvs(s) ==
    IF email_distributor(s, GoodEmailEnv(s)) = email_distributor(s, BadEmailEnv)
    THEN {BadEmailEnv}
    ELSE [store1 : StorageEnvs, send : SendEnvs(Len(s.recipients)),
          store2 : StorageEnvs]

GoodPostEnv == [k \in Platforms |-> "ok"]
BadPostEnv == [k \in Platforms |-> "fail"]

SocialEnvs(s) ==
    IF social_media_poster(s, GoodPostEnv) = social_media_poster(s, BadPostEnv)
    THEN {BadPostEnv}
    ELSE PostEnvs

----------------------------------------------------------------------------
(* One step: `result` is what the operation `name` leaves. *)

Run(name, result) ==
    /\ state' = result.state
    /\ op' = name
    /\ raised' = result.raised
    /\ fx' = result.fx
    /\ approvedAtEntry' = state.approved
    /\ ret' = NoValue

(* main(): `state["approved"] = True`, then                                *)
(* `state = app.invoke(state)`.  When invoke raises, the assignment of its *)
(* result does not happen and the session keeps the state it passed in.    *)
ApproveAndInvoke(name) ==
    LET s0 == [state EXCEPT !.approved = TRUE]
    IN  \E g \in GenOutcomes, u \in StorageEnvs, r \in SearchOutcomes :
          LET a == press_release_writer(s0, g, u)
              b == recipient_search(a.state, r)
          IN  \E e \in IF a.raised THEN {BadEmailEnv}
                        ELSE EmailEnvs(b.state) :
                LET c == email_distributor(b.state, e)
                IN  \E p \in IF a.raised \/ c.raised THEN {BadPostEnv}
                              ELSE SocialEnvs(c.state) :
                      Run(name, app_invoke(s0, [gen |-> g, store |-> u,
                                                search |-> r, email |-> e,
                                                post |-> p]))

(* A handler of main() that only assigns fields. *)
Assign(name, s, log) == Run(name, Returned(s, log))

----------------------------------------------------------------------------
(* The handlers of main(). *)

(* The topic text input, shown at every step: a new non-empty topic is     *)
(* stored and the press release is generated at once, on the session's     *)
(* own dict.                                                               *)
TopicInput ==
    \E t \in TopicNames, g \in GenOutcomes, u \in StorageEnvs :
        /\ t # state.topic
        /\ Run("topic_input",
               press_release_writer([state EXCEPT !.topic = t], g, u))

(* "Approva e Procedi ai Topic": the text of the text area (the operator   *)
(* may have edited it) is stored, and the topics extract_topics gives for  *)
(* it, split on commas: a list of at least one entry.                      *)
ApprovePressRelease ==
    /\ state.current_step = "press_release"
    /\ \E text \in Texts, extracted \in TopicLists \ {<<>>} :
           Assign("approve_press_release",
                  [state EXCEPT !.press_release = text,
                                !.approved = TRUE,
                                !.topics = extracted,
                                !.current_step = "topics"],
                  <<Call("extract_topics", text)>>)

(* "Rigenera Comunicato". *)
Regenerate ==
    /\ state.current_step = "press_release"
    /\ \E g \in GenOutcomes, u \in StorageEnvs :
           Run("regenerate", press_release_writer(state, g, u))

(* A topic's text input edited: the edited list is stored. *)
EditTopic ==
    /\ state.current_step = "topics"
    /\ \E i \in 1..Len(state.topics), w \in TopicWords :
           /\ w # state.topics[i]
           /\ Assign("edit_topic",
                     [state EXCEPT !.topics = [state.topics EXCEPT ![i] = w]],
                     <<>>)

(* "Rimuovi" beside topic i: the button is handled inside the loop that    *)
(* collects the inputs, when edited_topics holds the topics up to i only;  *)
(* pop(i) drops topic i and what is left is stored.                        *)
RemoveTopic ==
    /\ state.current_step = "topics"
    /\ \E i \in 1..Len(state.topics) :
           Assign("remove_topic",
                  [state EXCEPT !.topics = SubSeq(state.topics, 1, i - 1)],
                  <<>>)

(* "Aggiungi" with a non-empty new topic. *)
AddTopic ==
    /\ state.current_step = "topics"
    /\ Len(state.topics) < MaxTopics
    /\ \E w \in TopicWords :
           Assign("add_topic",
                  [state EXCEPT !.topics = Append(state.topics, w)], <<>>)

(* "Approva e Cerca Destinatari". *)
ApproveSearch ==
    /\ state.current_step = "topics"
    /\ ApproveAndInvoke("approve_search")

(* "Torna al Comunicato". *)
BackToPressRelease ==
    /\ state.current_step = "topics"
    /\ Assign("back_to_press_release",
              [state EXCEPT !.current_step = "press_release",
                            !.approved = FALSE],
              <<>>)

(* "Approva e Invia Email". *)
ApproveSendEmail ==
    /\ state.current_step = "recipients"
    /\ ApproveAndInvoke("approve_send_email")

(* "Torna ai Topic". *)
BackToTopics ==
    /\ state.current_step = "recipients"
    /\ Assign("back_to_topics",
              [state EXCEPT !.current_step = "topics", !.approved = FALSE],
              <<>>)

(* "Procedi ai Social Media". *)
ProceedToSocial ==
    /\ state.current_step = "email"
    /\ ApproveAndInvoke("proceed_to_social")

(* "Completa Processo". *)
CompleteProcess ==
    /\ state.current_step = "social_media"
    /\ Assign("complete_process", InitialState, <<>>)

----------------------------------------------------------------------------
(* The stage functions and send_email called directly on a state, as the   *)
(* tests and a front end of agent.py call them.                            *)

CallPressReleaseWriter ==
    \E g \in GenOutcomes, u \in StorageEnvs :
        Run("press_release_writer", press_release_writer(state, g, u))

CallRecipientSearch ==
    \E r \in SearchOutcomes :
        Run("recipient_search", recipient_search(state, r))

(* ret: what send_email and the two storage calls gave back to the stage,  *)
(* "" standing for a storage call that raised.                             *)
CallEmailDistributor ==
    \E e \in EmailEnvs(state) :
        LET result == email_distributor(state, e)
            sent == send_email(state.recipients, e.send)
        IN  /\ state' = result.state
            /\ op' = "email_distributor"
            /\ raised' = result.raised
            /\ fx' = result.fx
            /\ approvedAtEntry' = state.approved
            /\ ret' = IF Calls(result.fx, "send_email") # {}
                      THEN [raised |-> sent.raised, status |-> sent.status,
                            stored |->
                              <<IF e.store1.raises THEN ""
                                ELSE store_press_release(e.store1),
                                IF e.store2.raises THEN ""
                                ELSE store_email(e.store2)>>]
                      ELSE NoValue

CallSocialMediaPoster ==
    \E p \in SocialEnvs(state) :
        Run("social_media_poster", social_media_poster(state, p))

CallSendEmail ==
    \E e \in SendEnvs(Len(state.recipients)) :
        LET sent == send_email(state.recipients, e)
        IN  /\ op' = "send_email"
            /\ raised' = sent.raised
            /\ fx' = sent.fx
            /\ ret' = [raised |-> sent.raised, status |-> sent.status]
            /\ approvedAtEntry' = state.approved
            /\ UNCHANGED state

----------------------------------------------------------------------------
(* The application: main() from the state it constructs.  Every invoke     *)
(* runs through social_media_poster or raises, so no execution rests at    *)
(* the steps "recipients" and "email" (NeverAtRecipientsOrEmail); the      *)
(* handlers of those two steps are exercised under StageSpec.              *)

Init ==
    /\ state = InitialState
    /\ op = "init"
    /\ raised = FALSE
    /\ fx = <<>>
    /\ approvedAtEntry = FALSE
    /\ ret = NoValue

Next ==
    \/ TopicInput
    \/ ApprovePressRelease
    \/ Regenerate
    \/ EditTopic
    \/ RemoveTopic
    \/ AddTopic
    \/ ApproveSearch
    \/ BackToPressRelease
    \/ CompleteProcess

Spec == Init /\ [][Next]_vars

NeverAtRecipientsOrEmail == state.current_step \notin {"recipients", "email"}

----------------------------------------------------------------------------
(* One operation applied to a state a caller supplies: the fields drawn    *)
(* from small sets, the results of an earlier run present or absent.       *)

NoEarlierRun ==
    [press_release_url |-> "", email_status |-> EmptyDict, email_url |-> "",
     social_media_status |-> EmptyDict]

EarlierRun ==
    [press_release_url |-> "s3://bucket/press_releases/old",
     email_status |-> [k \in {"old@x"} |-> TRUE],
     email_url |-> "s3://bucket/emails/old",
     social_media_status |-> [k \in Platforms |-> TRUE]]

InputStates ==
    {[topic |-> "t1", press_release |-> pr,
      press_release_url |-> old.press_release_url,
      recipients |-> rs, email_status |-> old.email_status,
      email_url |-> old.email_url,
      social_media_status |-> old.social_media_status,
      current_step |-> Steps[i], approved |-> ap, topics |-> <<"x">>] :
        pr \in Texts, rs \in RecipientLists,
        old \in {NoEarlierRun, EarlierRun},
        i \in 1..Len(Steps), ap \in BOOLEAN}

StageInit ==
    /\ state \in InputStates
    /\ op = "input"
    /\ raised = FALSE
    /\ fx = <<>>
    /\ approvedAtEntry = state.approved
    /\ ret = NoValue

Once(A) == op = "input" /\ A

StageNext ==
    \/ Once(CallPressReleaseWriter)
    \/ Once(CallRecipientSearch)
    \/ Once(CallEmailDistributor)
    \/ Once(CallSocialMediaPoster)
    \/ Once(CallSendEmail)

StageSpec == StageInit /\ [][StageNext]_vars

(* One button of the steps "recipients" and "email" pressed on a session   *)
(* state a caller supplies.                                                *)
HandlerNext ==
    \/ Once(ApproveSendEmail)
    \/ Once(BackToTopics)
    \/ Once(ProceedToSocial)

HandlerSpec == StageInit /\ [][HandlerNext]_vars

----------------------------------------------------------------------------
(* One call of the recipient discovery of utils.py. *)

Answer(name, result, log) ==
    /\ op' = name
    /\ raised' = result.raised
    /\ fx' = log
    /\ ret' = result
    /\ approvedAtEntry' = state.approved
    /\ UNCHANGED state

CallSearchJournalistEmail ==
    \E first \in InitialFound :
      \E rest \in (IF \E n \in DOMAIN first : first[n] # ""
                   THEN {NothingFound} ELSE RefinedFound),
         gen \in (IF \E n \in DOMAIN first : first[n] # ""
                  THEN {AlwaysGenerates} ELSE Generated) :
        LET q == QueryEnv(first, rest, gen)
            r == search_journalist_email(q)
        IN  Answer("search_journalist_email",
                   [raised |-> FALSE, email |-> r.email], r.fx)

CallSearchRecipients ==
    \E key \in BOOLEAN :
     \E news \in (IF key THEN NewsAnswers ELSE {NotAsked}) :
      LET v1 == [key |-> key, news |-> news, web |-> NotAsked,
                 dirs |-> <<NotAsked, NotAsked>>]
          asksWeb == ~NewsStrategy(v1).raised /\ NewsStrategy(v1).found = <<>>
      IN  \E web \in (IF asksWeb THEN WebAnswers ELSE {NotAsked}) :
            LET v2 == [v1 EXCEPT !.web = web]
                asksDirs == /\ asksWeb
                            /\ ~WebStrategy(v2).raised
                            /\ WebStrategy(v2).found = <<>>
            IN  \E dirs \in (IF asksDirs
                             THEN [1..Len(media_directories)
                                       -> DirectoryAnswers]
                             ELSE {<<NotAsked, NotAsked>>}) :
                  LET r == search_recipients([v2 EXCEPT !.dirs = dirs])
                  IN  Answer("search_recipients",
                             [raised |-> r.raised, list |-> r.list,
                              given |-> r.given],
                             r.fx)

SearchInit ==
    /\ state = InitialState
    /\ op = "input"
    /\ raised = FALSE
    /\ fx = <<>>
    /\ approvedAtEntry = FALSE
    /\ ret = NoValue

(* post_to_social_media called on a text; ret.text is that text and        *)
(* ret.configured the platforms whose credentials are set.                 *)
CallPostToSocialMedia ==
    \E press_release \in Texts, p \in PostEnvs :
        LET posted == post_to_social_media(press_release, p)
        IN  Answer("post_to_social_media",
                   [raised |-> FALSE, status |-> posted.status,
                    text |-> press_release,
                    configured |-> {k \in Platforms : p[k] # "unconfigured"}],
                   posted.fx)

SearchNext ==
    \/ Once(CallSearchRecipients)
    \/ Once(CallSearchJournalistEmail)
    \/ Once(CallPostToSocialMedia)

SearchSpec == SearchInit /\ [][SearchNext]_vars

----------------------------------------------------------------------------
(* What the properties below are stated in. *)

StorageCalls == {"store_press_release", "store_email"}
OutwardCalls ==
    StorageCalls \cup
    {"send_email", "SMTP", "send_message", "quit",
     "post_to_social_media", "post"}

MadeCall(log, c) == Calls(log, c) # {}
MadeAny(log, cs) == \E i \in 1..Len(log) : log[i].call \in cs

(* The results of an earlier run are as they were before the step. *)
ResultsKept ==
    /\ state'.press_release_url = state.press_release_url
    /\ state'.email_url = state.email_url
    /\ state'.email_status = state.email_status
    /\ state'.social_media_status = state.social_media_status

EmailsOf(recipients) == {recipients[i].email : i \in 1..Len(recipients)}
PairwiseDistinct(recipients) ==
    \A i, j \in 1..Len(recipients) :
        recipients[i].email = recipients[j].email => i = j

(* SMTP(), starttls and login went through. *)
Connected(log) == Len(log) > 0 /\ log[1].call = "SMTP" /\ log[1].ok

----------------------------------------------------------------------------
----------------------------------------------------------------------------
(* C2: no storage write (store_press_release, store_email) is made by a    *)
(* step that began without the operator's approval; in particular the      *)
(* generation of the press release, which leaves approved false, makes     *)
(* none.                                                                   *)
C2_NoStorageBeforeApproval ==
    MadeAny(fx, StorageCalls) => approvedAtEntry

----------------------------------------------------------------------------
(* C3: a normal return of email_distributor, social_media_poster or        *)
(* press_release_writer, and one of recipient_search with a non-empty      *)
(* result, leaves approved false; and a stage call that sends a message or *)
(* posts began with approved true and ends with it false, so a second send *)
(* or post needs approved to be set again.                                 *)
C3_ApprovalWithdrawn ==
    [][/\ (/\ op' \in {"email_distributor", "social_media_poster",
                       "press_release_writer"}
           /\ ~raised')
          => ~state'.approved
       /\ (/\ op' = "recipient_search"
           /\ ~raised'
           /\ ~MadeCall(fx', "st.error")
           /\ state'.recipients # <<>>)
          => ~state'.approved
       /\ (/\ op' \in {"email_distributor", "social_media_poster"}
           /\ MadeAny(fx', {"send_message", "post"}))
          => (state.approved /\ ~state'.approved)]_vars

(* An approved email_distributor has sent and returned. *)
C3_Witness ==
    /\ op = "email_distributor"
    /\ approvedAtEntry
    /\ ~raised
    /\ MadeCall(fx, "send_message")
    /\ ~state.approved

----------------------------------------------------------------------------
----------------------------------------------------------------------------
(* C5: one approval by the operator moves current_step forward by at most  *)
(* one stage of initial, press_release, topics, recipients, email,         *)
(* social_media.                                                           *)
C5_OneStagePerApproval ==
    [][op' \in {"approve_press_release", "approve_search"}
       => StepIndex(state'.current_step)
              <= StepIndex(state.current_step) + 1]_vars

----------------------------------------------------------------------------
(* C6: recipient_search entered with approved false does not call          *)
(* search_recipients, makes no storage or send call, and leaves the        *)
(* recipients of an earlier run as they were.                              *)
C6_UnapprovedSearchDoesNothing ==
    [][(op' = "recipient_search" /\ ~state.approved)
       => (/\ ~MadeCall(fx', "search_recipients")
           /\ ~MadeAny(fx', OutwardCalls)
           /\ state'.recipients = state.recipients)]_vars

----------------------------------------------------------------------------
(* C7: when the operator approves at the topics step and the search finds  *)
(* no recipient, the failure is reported and current_step is "topics"      *)
(* afterwards.                                                             *)
C7_EmptySearchStaysAtTopics ==
    [][(op' = "approve_search" /\ MadeCall(fx', "st.error"))
       => state'.current_step = "topics"]_vars

----------------------------------------------------------------------------
----------------------------------------------------------------------------
(* C9: once connected, send_email attempts every recipient in list order;  *)
(* for pairwise distinct emails the returned map is true exactly for the   *)
(* recipients whose send succeeded; and an approved email_distributor that *)
(* returns ends at current_step "email".                                   *)
C9_StatusPerRecipient ==
    /\ (op = "send_email" /\ Connected(fx))
       => /\ Len(fx) = Len(state.recipients) + 2
          /\ \A i \in 1..Len(state.recipients) :
                /\ fx[i + 1].call = "send_message"
                /\ fx[i + 1].arg = state.recipients[i].email
          /\ PairwiseDistinct(state.recipients)
             => \A i \in 1..Len(state.recipients) :
                    ret.status[state.recipients[i].email] = fx[i + 1].ok
    /\ (op = "email_distributor" /\ approvedAtEntry /\ ~raised)
       => state.current_step = "email"

----------------------------------------------------------------------------
(* C10: when send_email returns, its map has one entry per distinct        *)
(* recipient email (so as many entries as recipients when the emails are   *)
(* pairwise distinct), and when connecting failed every entry is false.    *)
C10_OneEntryPerDistinctEmail ==
    (op = "send_email" /\ ~raised)
    => /\ DOMAIN ret.status = EmailsOf(state.recipients)
       /\ PairwiseDistinct(state.recipients)
          => Cardinality(DOMAIN ret.status) = Len(state.recipients)
       /\ ~Connected(fx) => \A k \in DOMAIN ret.status : ~ret.status[k]

(* send_email has returned for two recipients that share an email. *)
C10_Witness ==
    /\ op = "send_email"
    /\ ~raised
    /\ Len(state.recipients) = 2
    /\ ~PairwiseDistinct(state.recipients)
    /\ Cardinality(DOMAIN ret.status) = 1

(* C10 as stated: whenever send_email returns, the map has as many entries *)
(* as the list has recipients.                                             *)
C10_OneEntryPerRecipient ==
    (op = "send_email" /\ ~raised)
    => Cardinality(DOMAIN ret.status) = Len(state.recipients)

----------------------------------------------------------------------------
(* C11: an approved email stage calls send_message once for each recipient *)
(* with a non-empty email and never for a recipient whose email is empty:  *)
(* an empty email gets no send attempt and no entry in email_status.       *)
C11_EmptyEmailsSkipped ==
    (op = "email_distributor" /\ approvedAtEntry /\ ~raised)
    => /\ \A i \in Calls(fx, "send_message") : fx[i].arg # ""
       /\ "" \notin DOMAIN state.email_status
       /\ (\E i \in Calls(fx, "SMTP") : fx[i].ok)
          => \A k \in EmailsOf(state.recipients) \ {""} :
                Cardinality({i \in Calls(fx, "send_message") : fx[i].arg = k})
                = Cardinality({j \in 1..Len(state.recipients) :
                                   state.recipients[j].email = k})

----------------------------------------------------------------------------
(* C12: when an approved social_media_poster finds no platform posted      *)
(* (post_to_social_media reports all three unsuccessful), it raises and    *)
(* current_step stays as it was.                                           *)
C12_TotalPostFailureRaises ==
    [][(/\ op' = "social_media_poster"
        /\ state.approved
        /\ MadeCall(fx', "post_to_social_media")
        /\ \A i \in Calls(fx', "post") : ~fx'[i].ok)
       => (raised' /\ state'.current_step = state.current_step)]_vars

----------------------------------------------------------------------------
----------------------------------------------------------------------------
(* The requests a call of search_recipients made to a host. *)
Asked(log, host) ==
    \E i \in Calls(log, "requests.get") : log[i].arg = host
AskedDirectories(log) ==
    \E d \in 1..Len(media_directories) : Asked(log, media_directories[d])

(* C14: search_recipients never raises, whatever the key and the requests  *)
(* do; it returns a list, empty when no strategy gave a recipient.         *)
C14_SearchNeverRaises ==
    op = "search_recipients"
    => /\ ~ret.raised
       /\ Len(ret.list) <= 2 * MaxFound
       /\ (/\ ret.given.news = 0
           /\ ret.given.web = 0
           /\ ret.given.directory = 0)
          => ret.list = <<>>

(* A call whose news request raised has returned the empty list. *)
C14_Witness ==
    /\ op = "search_recipients"
    /\ \E i \in Calls(fx, "requests.get") :
          fx[i].arg = "newsapi.org" /\ ~fx[i].ok
    /\ ~ret.raised
    /\ ret.list = <<>>

----------------------------------------------------------------------------
(* C15: the web search is requested only when the news API gave no         *)
(* recipient, the directories only when the web search gave none either;   *)
(* so the returned list comes from one strategy.                           *)
C15_FallbacksInSequence ==
    op = "search_recipients"
    => /\ Asked(fx, "google.com") => ret.given.news = 0
       /\ AskedDirectories(fx)
          => (/\ Asked(fx, "google.com")
              /\ ret.given.news = 0
              /\ ret.given.web = 0)
       /\ Cardinality({s \in DOMAIN ret.given : ret.given[s] > 0}) <= 1
       /\ \E s \in DOMAIN ret.given : Len(ret.list) = ret.given[s]

(* The news API and the web search gave nothing and the directories gave   *)
(* the list.                                                               *)
C15_Witness ==
    /\ op = "search_recipients"
    /\ Asked(fx, "newsapi.org")
    /\ Asked(fx, "google.com")
    /\ AskedDirectories(fx)
    /\ ret.given.directory > 0
    /\ Len(ret.list) = ret.given.directory

----------------------------------------------------------------------------
(* C16: whenever the news API gives no recipient, for whatever reason, the *)
(* web search is requested; whenever the web search gives none, the        *)
(* directories are requested.                                              *)
C16_FallbackAlwaysTried ==
    op = "search_recipients"
    => /\ ret.given.news = 0 => Asked(fx, "google.com")
       /\ (Asked(fx, "google.com") /\ ret.given.web = 0)
          => AskedDirectories(fx)

----------------------------------------------------------------------------
(* C17: search_journalist_email ends having made at most max_attempts      *)
(* generate_search_query calls and at most 4 + max_attempts web searches.  *)
C17_QueryBudget ==
    op = "search_journalist_email"
    => /\ ~ret.raised
       /\ Cardinality(Calls(fx, "generate_search_query")) <= max_attempts
       /\ Cardinality(Calls(fx, "perform_web_search")) <= MaxSearches

(* The budget used up: every query tried, no email. *)
C17_Witness ==
    /\ op = "search_journalist_email"
    /\ Cardinality(Calls(fx, "generate_search_query")) = max_attempts
    /\ Cardinality(Calls(fx, "perform_web_search")) = MaxSearches
    /\ ret.email = ""

----------------------------------------------------------------------------
(* C18: the queries are searched in order, the initial ones before any     *)
(* generation; the first search that finds an email is the last call made  *)
(* and its email is the one returned.                                      *)
C18_FirstMatchReturned ==
    op = "search_journalist_email"
    => LET searches == Calls(fx, "perform_web_search")
       IN  /\ \A i \in searches :
                /\ fx[i].arg.query
                      = Cardinality({j \in searches : j <= i})
                /\ fx[i].arg.query <= Len(initial_queries) => i = fx[i].arg.query
                /\ fx[i].arg.found # ""
                   => (i = Len(fx) /\ ret.email = fx[i].arg.found)
           /\ ret.email # ""
              => /\ Len(fx) \in searches
                 /\ fx[Len(fx)].arg.found = ret.email

(* An email found by the second refined query, after six searches came     *)
(* back empty.                                                             *)
C18_Witness ==
    /\ op = "search_journalist_email"
    /\ ret.email = "b@x"
    /\ Cardinality(Calls(fx, "perform_web_search")) = Len(initial_queries) + 2
    /\ Cardinality(Calls(fx, "generate_search_query")) = 2

----------------------------------------------------------------------------
(* C19: search_journalist_email returns "" only after the 4 initial        *)
(* queries and all max_attempts refinement attempts were tried; a          *)
(* generation error does not end the refinement early.                     *)
C19_EmptyOnlyOnExhaustion ==
    (op = "search_journalist_email" /\ ret.email = "")
    => /\ Cardinality(Calls(fx, "generate_search_query")) = max_attempts
       /\ \A i \in Calls(fx, "generate_search_query") :
             ~fx[i].ok => fx[i].arg = max_attempts \/ i < Len(fx)

----------------------------------------------------------------------------
(* C20: the list search_recipients returns holds no two recipients with    *)
(* the same non-empty email.                                               *)
C20_NoDuplicateEmails ==
    op = "search_recipients"
    => \A i, j \in 1..Len(ret.list) :
          (ret.list[i].email = ret.list[j].email /\ ret.list[i].email # "")
          => i = j

----------------------------------------------------------------------------
(* search_recipients_fallback, its last two steps: the removal of          *)
(* duplicates and the ranking of the collected recipients.  A recipient    *)
(* is the dict appended by the collection loop without its source field,   *)
(* which neither step reads.                                               *)

MaxListed == 2

FallbackNames == {"Unknown Author", "Jane Doe"}
FallbackRoles == {"", "Editor"}
FallbackPlatforms == {"unknown", "bbc.com"}
FallbackRegions == {"global", "europe"}

FallbackRecipients ==
    [name : FallbackNames, email : {"", "a@x", "b@x"}, role : FallbackRoles,
     platform : FallbackPlatforms, region : FallbackRegions]

FallbackLists ==
    UNION {[1..n -> FallbackRecipients] : n \in 0..MaxListed}

NeverSeen(email, seen_emails) == FALSE

Seen(email, seen_emails) == email \in seen_emails

RECURSIVE RemoveDuplicates(_, _, _)
RemoveDuplicates(recipients, seen_emails, unique) ==
    IF recipients = <<>> THEN unique
    ELSE LET recipient == Head(recipients)
         IN  IF Seen(recipient.email, seen_emails)
             THEN RemoveDuplicates(Tail(recipients), seen_emails, unique)
             ELSE RemoveDuplicates(Tail(recipients),
                                   seen_emails \cup {recipient.email},
                                   Append(unique, recipient))

unique_recipients(recipients) == RemoveDuplicates(recipients, {}, <<>>)

(* The sort key, a tuple of four booleans. *)
RelevanceKey(x) ==
    <<x.platform # "unknown", x.role # "", x.name # "Unknown Author",
      x.region # "global">>

(* Python's order on tuples of booleans: the first component in which the  *)
(* two differ decides, False before True.                                  *)
TupleLess(a, b) ==
    \E i \in 1..Len(a) :
        /\ \A j \in 1..(i - 1) : a[j] = b[j]
        /\ ~a[i] /\ b[i]

Ascending(x, y) == TupleLess(RelevanceKey(x), RelevanceKey(y))

(* reverse=True: x goes before y when its key is the greater one. *)
Reverse(x, y) == TupleLess(RelevanceKey(y), RelevanceKey(x))

(* list.sort is stable, also with reverse=True: x, which came later than   *)
(* everything in sorted, goes before the first element it must precede     *)
(* and after every element with an equal key.                              *)
Insert(x, sorted) ==
    LET before == {i \in 1..Len(sorted) : Reverse(x, sorted[i])}
        at == IF before = {} THEN Len(sorted) + 1
              ELSE CHOOSE i \in before : \A j \in before : i <= j
    IN  SubSeq(sorted, 1, at - 1) \o <<x>> \o SubSeq(sorted, at, Len(sorted))

RECURSIVE SortInto(_, _)
SortInto(list, sorted) ==
    IF list = <<>> THEN sorted
    ELSE SortInto(Tail(list), Insert(Head(list), sorted))

sort(list) == SortInto(list, <<>>)

RemoveDuplicatesStep ==
    /\ op = "input"
    /\ op' = "remove_duplicates"
    /\ ret' = unique_recipients(state.recipients)
    /\ UNCHANGED <<state, raised, fx, approvedAtEntry>>

SortStep ==
    /\ op = "remove_duplicates"
    /\ op' = "sort"
    /\ state' = [recipients |-> ret]
    /\ ret' = sort(ret)
    /\ UNCHANGED <<raised, fx, approvedAtEntry>>

RankInit ==
    /\ state \in {[recipients |-> l] : l \in FallbackLists}
    /\ op = "input"
    /\ raised = FALSE
    /\ fx = <<>>
    /\ approvedAtEntry = FALSE
    /\ ret = NoValue

RankNext ==
    \/ RemoveDuplicatesStep
    \/ SortStep

RankSpec == RankInit /\ [][RankNext]_vars

(* The positions of a list that hold the first occurrence of their email. *)
FirstOccurrences(list) ==
    {i \in 1..Len(list) : \A j \in 1..(i - 1) : list[j].email # list[i].email}

RECURSIVE Keep(_, _)
Keep(list, positions) ==
    IF list = <<>> THEN <<>>
    ELSE Keep(SubSeq(list, 1, Len(list) - 1), positions)
         \o (IF Len(list) \in positions THEN <<list[Len(list)]>> ELSE <<>>)

(* The number of the four criteria a recipient meets, weighted by their    *)
(* priority.                                                               *)
Priority(x) ==
    (IF x.platform # "unknown" THEN 8 ELSE 0)
    + (IF x.role # "" THEN 4 ELSE 0)
    + (IF x.name # "Unknown Author" THEN 2 ELSE 0)
    + (IF x.region # "global" THEN 1 ELSE 0)

WithPriority(list, p) ==
    Keep(list, {i \in 1..Len(list) : Priority(list[i]) = p})

----------------------------------------------------------------------------
(* C21: the removal of duplicates is idempotent and keeps the order: its   *)
(* output is the input without the later occurrences of an email already   *)
(* seen, and removing duplicates from the output changes nothing.          *)
C21_DedupIdempotentFirstKept ==
    op = "remove_duplicates"
    => /\ ret = Keep(state.recipients, FirstOccurrences(state.recipients))
       /\ unique_recipients(ret) = ret

(* Two different recipients with the email a@x: the first one stays. *)
C21_Witness ==
    /\ op = "remove_duplicates"
    /\ Len(state.recipients) = 2
    /\ state.recipients[1].email = "a@x"
    /\ state.recipients[2].email = "a@x"
    /\ state.recipients[2] # state.recipients[1]
    /\ ret = <<state.recipients[1]>>

----------------------------------------------------------------------------
----------------------------------------------------------------------------
(* C23: the ranking puts a recipient of higher priority (platform known,   *)
(* then role present, then name known, then region not global) first and   *)
(* keeps recipients of equal priority in the order they came in.           *)
C23_RankingStableByPriority ==
    op = "sort"
    => /\ \A i, j \in 1..Len(ret) :
             i < j => Priority(ret[i]) >= Priority(ret[j])
       /\ \A p \in 0..15 :
             WithPriority(ret, p) = WithPriority(state.recipients, p)

(* The example of the specification, given in the wrong order. *)
C23_Witness ==
    /\ op = "sort"
    /\ Len(state.recipients) = 2
    /\ state.recipients[1].platform = "unknown"
    /\ state.recipients[1].role = ""
    /\ state.recipients[1].name = "Unknown Author"
    /\ state.recipients[1].region = "global"
    /\ state.recipients[2].platform = "bbc.com"
    /\ state.recipients[2].role = "Editor"
    /\ state.recipients[2].name = "Jane Doe"
    /\ state.recipients[2].region = "europe"
    /\ ret = <<state.recipients[2], state.recipients[1]>>

----------------------------------------------------------------------------
(* The functions of utils.py that work on text.  A Python str is a         *)
(* sequence of one-character strings here, so that containment, case and   *)
(* position are computed rather than assumed.                              *)

MaxText == 7
MaxAnchors == 2
MaxResults == 2

ascii_lowercase ==
    <<"a", "b", "c", "d", "e", "f", "g", "h", "i", "j", "k", "l", "m", "n",
      "o", "p", "q", "r", "s", "t", "u", "v", "w", "x", "y", "z">>
ascii_uppercase ==
    <<"A", "B", "C", "D", "E", "F", "G", "H", "I", "J", "K", "L", "M", "N",
      "O", "P", "Q", "R", "S", "T", "U", "V", "W", "X", "Y", "Z">>
digits == {"0", "1", "2", "3", "4", "5", "6", "7", "8", "9"}

(* str.lower() *)
lower(s) ==
    [i \in 1..Len(s) |->
        IF \E k \in 1..26 : ascii_uppercase[k] = s[i]
        THEN ascii_lowercase[CHOOSE k \in 1..26 : ascii_uppercase[k] = s[i]]
        ELSE s[i]]

(* `sub in s` *)
Contains(sub, s) ==
    \E i \in 1..(Len(s) - Len(sub) + 1) : SubSeq(s, i, i + Len(sub) - 1) = sub

(* urllib.parse.urljoin for an http(s) base: an href with a scheme stands  *)
(* for itself, one that starts with "/" replaces the path of the base, any *)
(* other replaces the last segment of that path.                           *)
urljoin(base, href) ==
    LET scheme == <<":", "/", "/">>
        netloc == 3 + CHOOSE i \in 1..Len(base) :
                         /\ SubSeq(base, i, i + 2) = scheme
                         /\ \A j \in 1..(i - 1) :
                                SubSeq(base, j, j + 2) # scheme
        slashes == {k \in netloc..Len(base) : base[k] = "/"}
        first == CHOOSE k \in slashes : \A j \in slashes : k <= j
        last == CHOOSE k \in slashes : \A j \in slashes : k >= j
    IN  IF href = <<>> THEN base
        ELSE IF Contains(scheme, href) THEN href
        ELSE IF href[1] = "/"
             THEN (IF slashes = {} THEN base ELSE SubSeq(base, 1, first - 1))
                  \o href
        ELSE (IF slashes = {} THEN base \o <<"/">> ELSE SubSeq(base, 1, last))
             \o href

contact_patterns ==
    {<<"c", "o", "n", "t", "a", "c", "t">>,
     <<"a", "b", "o", "u", "t">>,
     <<"s", "t", "a", "f", "f">>,
     <<"t", "e", "a", "m">>,
     <<"w", "r", "i", "t", "e", "r", "s">>,
     <<"e", "d", "i", "t", "o", "r", "s">>}

(* response.ok: requests.get and the parse of the page completed;          *)
(* response.anchors: the href of every <a href=...>, in document order.    *)
find_contact_page(url, response) ==
    LET anchors == response.anchors
        matching == {i \in 1..Len(anchors) :
                        \E pattern \in contact_patterns :
                            Contains(pattern, lower(anchors[i]))}
        link == CHOOSE i \in matching : \A j \in matching : i <= j
    IN  IF ~response.ok THEN [raised |-> FALSE, url |-> url]
        ELSE IF matching = {} THEN [raised |-> FALSE, url |-> url]
        ELSE [raised |-> FALSE, url |-> urljoin(url, lower(anchors[link]))]

(* The region search_recipients_fallback gives the recipients of a page. *)
Region(href) ==
    LET In(domains) == \E domain \in domains : Contains(domain, lower(href))
    IN  IF In({<<".", "e", "u">>, <<".", "d", "e">>,
               <<".", "f", "r">>, <<".", "u", "k">>}) THEN "europe"
        ELSE IF In({<<".", "c", "n">>, <<".", "j", "p">>,
                    <<".", "k", "r">>, <<".", "i", "n">>,
                    <<".", "s", "g">>}) THEN "asia"
        ELSE IF In({<<".", "b", "r">>, <<".", "a", "r">>,
                    <<".", "c", "l">>, <<".", "e", "s">>}) THEN "latin_america"
        ELSE "global"

(* email_pattern, [a-zA-Z0-9._%+-]+@[a-zA-Z0-9.-]+\.[a-zA-Z]{2,}: where a   *)
(* match that starts at position i ends, 0 when there is none.  Both       *)
(* repetitions are greedy; "@" is in neither class, so the local part is   *)
(* the whole run up to it, and the domain part gives back characters until *)
(* what follows it is a dot and two letters.                               *)
MatchEnd(text, i) ==
    LET n == Len(text)
        letters == {ascii_lowercase[k] : k \in 1..26}
                   \cup {ascii_uppercase[k] : k \in 1..26}
        local == letters \cup digits \cup {".", "_", "%", "+", "-"}
        domain == letters \cup digits \cup {".", "-"}
        RunEnd(from, class) ==
            CHOOSE k \in (from - 1)..n :
                /\ \A j \in from..k : text[j] \in class
                /\ k = n \/ text[k + 1] \notin class
        at == RunEnd(i, local) + 1
        ends == {e \in (at + 1)..(RunEnd(at + 1, domain) - 1) :
                    /\ text[e + 1] = "."
                    /\ e + 3 <= n
                    /\ text[e + 2] \in letters
                    /\ text[e + 3] \in letters}
        end == CHOOSE e \in ends : \A f \in ends : e >= f
    IN  IF at = i \/ at > n THEN 0
        ELSE IF text[at] # "@" \/ ends = {} THEN 0
        ELSE RunEnd(end + 2, letters)

(* re.findall: the matches from left to right, each search starting where  *)
(* the last match ended.                                                   *)
RECURSIVE findall(_, _)
findall(text, pos) ==
    IF pos > Len(text) THEN <<>>
    ELSE LET end == MatchEnd(text, pos)
         IN  IF end = 0 THEN findall(text, pos + 1)
             ELSE <<SubSeq(text, pos, end)>> \o findall(text, end + 1)

(* list(set(...)): the distinct matches, in no particular order. *)
extract_email_from_text(text) ==
    LET emails == findall(text, 1)
    IN  {emails[k] : k \in 1..Len(emails)}

(* text.split('.')[0] if text else "" *)
WholeText(text) == text

FirstSentence(text) ==
    LET dots == {i \in 1..Len(text) : text[i] = "."}
    IN  IF dots = {} THEN text
        ELSE SubSeq(text, 1, (CHOOSE i \in dots : \A j \in dots : i <= j) - 1)

(* answer: whether the generation raised, and else what it returned,       *)
(* stripped.                                                               *)
extract_topics(text, answer) ==
    IF answer.raised THEN [raised |-> FALSE, topics |-> FirstSentence(text)]
    ELSE [raised |-> FALSE, topics |-> answer.content]

TopicAnswers ==
    {[raised |-> TRUE, content |-> <<>>],
     [raised |-> FALSE, content |-> <<"a", ",", "a">>]}

(* The text of test_extract_email_from_text_with_invalid_emails. *)
InvalidEmailsText ==
    <<"\n", " ", " ", " ", " ", "I", "n", "v", "a", "l", "i", "d", " ",
      "e", "m", "a", "i", "l", "s", ":", " ", "t", "e", "s", "t", "@", ",",
      " ", "@", "e", "x", "a", "m", "p", "l", "e", ".", "c", "o", "m", ",",
      " ", "t", "e", "s", "t", "@", ".", "c", "o", "m", "\n", " ", " ",
      " ", " ", "V", "a", "l", "i", "d", " ", "e", "m", "a", "i", "l", ":",
      " ", "t", "e", "s", "t", "@", "e", "x", "a", "m", "p", "l", "e", ".",
      "c", "o", "m", "\n", " ", " ", " ", " ">>

InputTexts ==
    UNION {[1..n -> {"a", ".", "@", ","}] : n \in 0..MaxText}
    \cup {InvalidEmailsText}

Urls ==
    {<<"h", "t", "t", "p", "s", ":", "/", "/", "s", "i", "t", "e", ".", "c",
  "o", "m", ".", "b", "r">>,
     <<"h", "t", "t", "p", "s", ":", "/", "/", "s", "i", "t", "e", ".", "c",
  "o", ".", "u", "k">>,
     <<"h", "t", "t", "p", "s", ":", "/", "/", "s", "i", "t", "e", ".", "j",
  "p", "/", "n", "e", "w", "s", "/", "t", "o", "d", "a", "y">>,
     <<"h", "t", "t", "p", "s", ":", "/", "/", "s", "i", "t", "e", ".", "c",
  "o", "m">>,
     <<"h", "t", "t", "p", "s", ":", "/", "/", "w", "w", "w", ".", "e", "s",
  "p", "n", ".", "c", "o", "m">>,
     <<"h", "t", "t", "p", "s", ":", "/", "/", "S", "I", "T", "E", ".", "J", "P">>}

Hrefs ==
    {<<"/", "c", "o", "n", "t", "a", "c", "t">>,
     <<"/", "C", "o", "n", "t", "a", "c", "t">>,
     <<"/", "h", "o", "m", "e">>,
     <<"a", "b", "o", "u", "t", ".", "h", "t", "m", "l">>,
     <<"h", "t", "t", "p", "s", ":", "/", "/", "o", "t", "h", "e", "r", ".",
  "o", "r", "g", "/", "t", "e", "a", "m">>}

Responses ==
    {[ok |-> FALSE, anchors |-> <<>>]}
    \cup {[ok |-> TRUE, anchors |-> a] :
             a \in UNION {[1..n -> Hrefs] : n \in 0..MaxAnchors}}

Return(name, result, log) ==
    /\ op' = name
    /\ raised' = result.raised
    /\ fx' = log
    /\ ret' = result
    /\ UNCHANGED <<state, approvedAtEntry>>

CallExtractEmailFromText ==
    /\ "text" \in DOMAIN state
    /\ Return("extract_email_from_text",
              [raised |-> FALSE,
               emails |-> extract_email_from_text(state.text)], <<>>)

CallExtractTopics ==
    /\ "text" \in DOMAIN state
    /\ \E answer \in TopicAnswers :
          Return("extract_topics", extract_topics(state.text, answer),
                 <<Attempt("generate", "", ~answer.raised)>>)

CallGenerateSearchQuery ==
    /\ "url" \in DOMAIN state
    /\ \E outcome \in GenerationOutcomes :
          LET q == [gen |-> <<outcome>>]
          IN  Return("generate_search_query",
                     [raised |-> FALSE,
                      query |-> generate_search_query(q, 1)],
                     <<Attempt("generate_search_query", 1,
                               outcome # "error")>>)

CallFindContactPage ==
    /\ "url" \in DOMAIN state
    /\ Return("find_contact_page",
              find_contact_page(state.url, state.response),
              <<Attempt("get", "", state.response.ok)>>)

AssignRegion ==
    /\ "url" \in DOMAIN state
    /\ Return("region", [raised |-> FALSE, region |-> Region(state.url)], <<>>)

(* perform_web_search, the helper of search_journalist_email, on what the  *)
(* requests give.  r.ok: the search request returned with status 200;      *)
(* r.snippets: the snippet text of each result, in order; r.page: the      *)
(* contact page of the first result (ok: the request for it returned).     *)
(* name_parts is assigned inside the loop over the emails of a snippet:    *)
(* when no snippet holds an email it is unbound at the contact page, and   *)
(* the UnboundLocalError is caught by the handler around the visit.        *)
PerformWebSearch(name, r) ==
    LET n == lower(name)
        words == {w \in (1..Len(n)) \X (1..Len(n)) :
                     /\ w[1] <= w[2]
                     /\ \A m \in w[1]..w[2] : n[m] # " "
                     /\ w[1] = 1 \/ n[w[1] - 1] = " "
                     /\ w[2] = Len(n) \/ n[w[2] + 1] = " "}
        name_parts == {SubSeq(n, w[1], w[2]) : w \in words}
        Matching(text) ==
            {email \in extract_email_from_text(text) :
                \E part \in name_parts : Contains(part, lower(email))}
        hits == {i \in 1..Len(r.snippets) : Matching(r.snippets[i]) # {}}
        first == CHOOSE i \in hits : \A j \in hits : i <= j
        bound == \E i \in 1..Len(r.snippets) :
                    extract_email_from_text(r.snippets[i]) # {}
    IN  IF ~r.ok THEN <<>>
        ELSE IF hits # {}
             THEN CHOOSE email \in Matching(r.snippets[first]) : TRUE
        ELSE IF r.snippets = <<>> \/ ~r.page.ok THEN <<>>
        ELSE IF extract_email_from_text(r.page.text) = {} \/ ~bound THEN <<>>
        ELSE IF Matching(r.page.text) = {} THEN <<>>
        ELSE CHOOSE email \in Matching(r.page.text) : TRUE

(* Texts with at most one email: none, one that holds "rossi" in its       *)
(* domain only, one that holds it in its local part, one of somebody else. *)
FoundTexts ==
    {<<>>,
     <<"i", "n", "f", "o", "@", "r", "o", "s", "s", "i", ".", "i", "t">>,
     <<"m", ".", "r", "o", "s", "s", "i", "@", "x", ".", "i", "t">>,
     <<"a", "@", "b", ".", "i", "t">>}

SearchResponses ==
    [ok : BOOLEAN,
     snippets : UNION {[1..k -> FoundTexts] : k \in 0..MaxResults},
     page : {[ok |-> FALSE, text |-> <<>>]}
            \cup {[ok |-> TRUE, text |-> t] : t \in FoundTexts}]

CallPerformWebSearch ==
    /\ "name" \in DOMAIN state
    /\ Return("perform_web_search",
              [raised |-> FALSE,
               email |-> PerformWebSearch(state.name, state.response)],
              <<Attempt("get", "", state.response.ok)>>)

TextInit ==
    /\ state \in {[text |-> t] : t \in InputTexts}
                 \cup [url : Urls, response : Responses]
                 \cup [name : {<<"M", "a", "r", "i", "o", " ", "R", "o", "s", "s", "i">>},
                       response : SearchResponses]
    /\ op = "input"
    /\ raised = FALSE
    /\ fx = <<>>
    /\ approvedAtEntry = FALSE
    /\ ret = NoValue

TextNext ==
    \/ Once(CallExtractEmailFromText)
    \/ Once(CallExtractTopics)
    \/ Once(CallGenerateSearchQuery)
    \/ Once(CallFindContactPage)
    \/ Once(AssignRegion)
    \/ Once(CallPerformWebSearch)

TextSpec == TextInit /\ [][TextNext]_vars
----------------------------------------------------------------------------
(* C24: find_contact_page never raises; it returns the url it was given    *)
(* when the fetch fails or no anchor's href contains a keyword, and        *)
(* otherwise the href of the first such anchor, resolved against the url.  *)
C24_ContactPageOrInput ==
    op = "find_contact_page"
    => LET anchors == state.response.anchors
           matching == {i \in 1..Len(anchors) :
                           \E pattern \in contact_patterns :
                               Contains(pattern, lower(anchors[i]))}
           link == CHOOSE i \in matching : \A j \in matching : i <= j
       IN  /\ ~raised
           /\ ret.url = IF ~state.response.ok \/ matching = {} THEN state.url
                        ELSE urljoin(state.url, anchors[link])

----------------------------------------------------------------------------
(* C25: extract_email_from_text returns only strings local@domain.tld with *)
(* a non-empty local part and no empty label in the domain, and from the   *)
(* text with test@, @example.com, test@.com and test@example.com exactly   *)
(* the last.                                                               *)
C25_OnlyWellFormedEmails ==
    op = "extract_email_from_text"
    => /\ \A m \in ret.emails :
             LET ats == {i \in 1..Len(m) : m[i] = "@"}
                 at == CHOOSE i \in ats : TRUE
                 domain == SubSeq(m, at + 1, Len(m))
             IN  /\ Cardinality(ats) = 1
                 /\ at > 1
                 /\ \E i \in 1..Len(domain) : domain[i] = "."
                 /\ domain[1] # "." /\ domain[Len(domain)] # "."
                 /\ \A i \in 1..(Len(domain) - 1) :
                       ~(domain[i] = "." /\ domain[i + 1] = ".")
       /\ state.text = InvalidEmailsText
          => ret.emails = {SubSeq(InvalidEmailsText, 70, 85)}

----------------------------------------------------------------------------
(* C26: the region depends on the suffix of the source's host only:        *)
(* .eu .de .fr .uk give europe, .cn .jp .kr .in .sg give asia, .br .ar     *)
(* .cl .es give latin_america, any other host gives global.                *)
C26_RegionBySuffix ==
    op = "region"
    => LET url == lower(state.url)
           start == 3 + CHOOSE i \in 1..Len(url) :
                            /\ SubSeq(url, i, i + 2) = <<":", "/", "/">>
                            /\ \A j \in 1..(i - 1) :
                                  SubSeq(url, j, j + 2) # <<":", "/", "/">>
           slashes == {k \in start..Len(url) : url[k] = "/"}
           host == IF slashes = {} THEN SubSeq(url, start, Len(url))
                   ELSE SubSeq(url, start,
                               (CHOOSE k \in slashes :
                                   \A j \in slashes : k <= j) - 1)
           suffix == SubSeq(host, Len(host) - 2, Len(host))
       IN  ret.region =
              IF suffix \in {<<".", "e", "u">>, <<".", "d", "e">>,
                             <<".", "f", "r">>, <<".", "u", "k">>}
              THEN "europe"
              ELSE IF suffix \in {<<".", "c", "n">>, <<".", "j", "p">>,
                                  <<".", "k", "r">>, <<".", "i", "n">>,
                                  <<".", "s", "g">>}
              THEN "asia"
              ELSE IF suffix \in {<<".", "b", "r">>, <<".", "a", "r">>,
                                  <<".", "c", "l">>, <<".", "e", "s">>}
              THEN "latin_america"
              ELSE "global"

----------------------------------------------------------------------------
(* C29: a failure of the generation is not passed on: extract_topics       *)
(* returns the text up to its first "." (the empty text for an empty       *)
(* text) and generate_search_query returns "", neither raises.             *)
C29_GenerationFailureAbsorbed ==
    /\ (op = "extract_topics" /\ ~fx[1].ok)
       => /\ ~raised
          /\ Len(ret.topics) <= Len(state.text)
          /\ ret.topics = SubSeq(state.text, 1, Len(ret.topics))
          /\ \A i \in 1..Len(ret.topics) : ret.topics[i] # "."
          /\ \/ ret.topics = state.text
             \/ state.text[Len(ret.topics) + 1] = "."
    /\ (op = "generate_search_query" /\ ~fx[1].ok)
       => ~raised /\ ret.query = ""

(* The generation failed on a text of two sentences: the first is the      *)
(* answer.                                                                 *)
C29_Witness ==
    /\ op = "extract_topics"
    /\ ~fx[1].ok
    /\ state.text = <<"a", ",", "a", ".", "a", ".">>
    /\ ret.topics = <<"a", ",", "a">>
    /\ ~raised

----------------------------------------------------------------------------
(* C27: the only steps of the operator that take current_step to an        *)
(* earlier stage are recipients -> topics, topics -> press_release and the *)
(* reset social_media -> initial, and each leaves approved false; none     *)
(* goes from recipients, email or social_media back to press_release.      *)
C27_OnlyPermittedBackSteps ==
    [][StepIndex(state'.current_step) < StepIndex(state.current_step)
       => /\ <<state.current_step, state'.current_step>> \in
                {<<"recipients", "topics">>, <<"topics", "press_release">>,
                 <<"social_media", "initial">>}
          /\ ~state'.approved]_vars

----------------------------------------------------------------------------
(* C28: when the generation call fails, press_release_writer raises, and   *)
(* press_release, current_step and approved are as they were; nothing is   *)
(* stored.                                                                 *)
C28_GenerationFailureRaises ==
    [][(op' = "press_release_writer" /\ ~fx'[1].ok)
       => /\ raised'
          /\ state'.press_release = state.press_release
          /\ state'.current_step = state.current_step
          /\ state'.approved = state.approved
          /\ ~MadeAny(fx', StorageCalls)]_vars

(* The call failed on an approved state at the email step that holds a     *)
(* press release.                                                          *)
C28_Witness ==
    /\ op = "press_release_writer"
    /\ raised
    /\ fx = <<Attempt("generate", state.topic, FALSE)>>
    /\ state.press_release = "pr1"
    /\ state.current_step = "email"
    /\ state.approved

----------------------------------------------------------------------------
(* C30: when search_recipients raises, recipient_search raises.            *)
C30_SearchFailureRaises ==
    (op = "recipient_search" /\ ~fx[1].ok) => raised

----------------------------------------------------------------------------
----------------------------------------------------------------------------
----------------------------------------------------------------------------
(* C33: every call of generate_search_query in a run of                    *)
(* search_journalist_email is given, as previous_queries, the queries      *)
(* searched without success so far: the four initial ones in order, then   *)
(* one entry for each earlier refined query.                               *)
C33_PreviousQueriesComplete ==
    op = "search_journalist_email"
    => \A i \in Calls(fx, "generate_search_query") :
          /\ Len(fx[i].previous) =
                Cardinality({j \in Calls(fx, "perform_web_search") : j < i})
          /\ SubSeq(fx[i].previous, 1, Len(initial_queries)) = initial_queries
          /\ \A j \in (Len(initial_queries) + 1)..Len(fx[i].previous) :
                fx[i].previous[j] = "refined"

(* The third refined query was asked for with six queries tried before. *)
C33_Witness ==
    /\ op = "search_journalist_email"
    /\ \E i \in Calls(fx, "generate_search_query") :
          /\ fx[i].arg = 3
          /\ Len(fx[i].previous) = Len(initial_queries) + 2
          /\ fx[i].previous[1] = "email contact"
          /\ fx[i].previous[Len(initial_queries) + 1] = "refined"

----------------------------------------------------------------------------
(* C34: when the search returned results, no snippet yields an email that  *)
(* matches the name (also when no snippet holds an email at all), and the  *)
(* contact page of the first result holds an email whose local part holds  *)
(* a token of the name, perform_web_search returns that email.             *)
C34_ContactPageEmailReturned ==
    (/\ op = "perform_web_search"
     /\ state.response.ok /\ state.response.page.ok
     /\ state.response.snippets # <<>>
     /\ \A i \in 1..Len(state.response.snippets) :
           state.response.snippets[i] \in
               {<<>>, <<"a", "@", "b", ".", "i", "t">>}
     /\ state.response.page.text =
           <<"m", ".", "r", "o", "s", "s", "i", "@", "x", ".", "i", "t">>)
    => ret.email = state.response.page.text

----------------------------------------------------------------------------
(* C35: a non-empty email that perform_web_search returns, and so          *)
(* search_journalist_email, holds a token of the lower-cased name in its   *)
(* local part, the text before "@".                                        *)
C35_LocalPartHoldsNameToken ==
    (op = "perform_web_search" /\ ret.email # <<>>)
    => LET email == lower(ret.email)
           at == CHOOSE i \in 1..Len(email) : email[i] = "@"
           local == SubSeq(email, 1, at - 1)
       IN  \/ Contains(<<"m", "a", "r", "i", "o">>, local)
           \/ Contains(<<"r", "o", "s", "s", "i">>, local)

----------------------------------------------------------------------------
(* C36: the press-release text approved at the press_release step is not   *)
(* regenerated or overwritten by a later approval: the approval of the     *)
(* topics ("Approva e Cerca Destinatari") leaves state.press_release as   *)
(* it was.                                                                 *)
C36_ApprovedTextKept ==
    [][(op' = "approve_search" /\ ~raised')
          => state'.press_release = state.press_release]_vars

----------------------------------------------------------------------------
(* C37: whenever email_distributor raises, it has modified no field of the *)
(* state and has made no storage call.                                     *)
C37_AllOrNothingOnFailure ==
    [][(op' = "email_distributor" /\ raised')
          => (state' = state /\ ~MadeAny(fx', StorageCalls))]_vars

----------------------------------------------------------------------------
(* Two stage calls in a row on one state dict, as a caller of the stage    *)
(* functions makes them: email_distributor on a state that holds no send   *)
(* status yet, then recipient_search run again on the state it left.       *)
RerunInit ==
    /\ StageInit
    /\ state.email_status = NoEarlierRun.email_status

RerunNext ==
    \/ Once(CallEmailDistributor)
    \/ (op = "email_distributor" /\ CallRecipientSearch)

RerunSpec == RerunInit /\ [][RerunNext]_vars

----------------------------------------------------------------------------
(* C39: when send_email returns, every recipient whose send_message call   *)
(* completed without error is reported true in the returned map, whatever  *)
(* happened afterwards in the same call.                                   *)
C39_CompletedSendsReportedTrue ==
    (op = "send_email" /\ ~raised)
        => \A i \in Calls(fx, "send_message") :
               fx[i].ok => ret.status[fx[i].arg]

====
